---- MODULE Spec2Model ----
(***************************************************************************)
(* Server-side component rendering of packages/astro:                      *)
(*   src/packages/astro/src/runtime/server/render/component.ts             *)
(*                                                                         *)
(* Two state machines live in this module.                                 *)
(*   SpecStream  renderAstroComponent: sibling template-factory instances   *)
(*               rendering eagerly into private buffers that the parent    *)
(*               flushes in document order.                                *)
(*   SpecFC      renderComponent / renderFrameworkComponent: dispatch,     *)
(*               renderer resolution, validation, output.                  *)
(***************************************************************************)
EXTENDS Integers, Sequences, FiniteSets, TLC

VARIABLES
    \* ---- renderAstroComponent (SpecStream) ----
    created,        \* [sibling -> BOOLEAN]  renderAstroComponent has returned
    bufferChunks,   \* [sibling -> Seq(chunk)]  the private buffer (line 427)
    rebound,        \* [sibling -> BOOLEAN]  bufferDestination.write was re-assigned (line 443)
    resolved,       \* [sibling -> BOOLEAN]  renderPromise has settled
    produced,       \* [sibling -> Seq(chunk)]  every chunk the instance wrote so far
    flushed,        \* [sibling -> Nat]  how many chunks the flush loop copied (line 437)
    resolveOrder,   \* Seq(sibling)  order in which the renderPromises settled
    realDest,       \* Seq(chunk)  what the real destination has received
    parentIdx,      \* the sibling whose render() the parent calls next / awaits
    parentPhase,    \* "idle" | "awaiting"
    \* ---- renderComponent / renderFrameworkComponent (SpecFC) ----
    pc,               \* position in renderComponent / renderFrameworkComponent
    Component,        \* [kind, tag, promised]  the component value
    slots,            \* the set of slot names passed in
    renderers,        \* Seq(descriptor)  result.renderers, in registry order
    hydration,        \* [directive, value, ext]  what extractDirectives returned
    isPage,           \* BOOLEAN  what extractDirectives returned
    children,         \* [slot name -> html]  what renderSlots returned
    slotInstructions, \* Seq(instruction)  what renderSlots returned
    renderer,         \* index into renderers of the selected one, 0 = undefined
    loopIdx,          \* index of the next renderer the check loop visits
    error,            \* index of the first renderer whose check threw, 0 = none
    checkLog,         \* Seq(<<index, outcome>>)  every check call made, in order
    staticCalls,      \* Seq(index)  every renderToStaticMarkup call made
    html,             \* Seq(token)  the markup so far
    instance,         \* the RenderInstance returned, kind "none" before that
    thrown,           \* the error the call failed with, "none" otherwise
    destination,      \* Seq(chunk)  what render(destination) wrote
    \* ---- renderComponentToString (SpecToString) ----
    tsPc,             \* position in renderComponentToString
    isPageArg,        \* BOOLEAN  the isPage parameter
    head,             \* Seq(token)  the head markup computed at lines 490-495
    compressHTML,     \* BOOLEAN  result.compressHTML
    route,            \* the value of route?.component, "undefined" without one
    str,              \* Seq(token)  the string built so far
    renderedFirstPageChunk,   \* BOOLEAN  line 486
    written,          \* Seq(chunk)  every chunk passed to destination.write
    attempts,         \* how many times renderComponent was called
    caught,           \* the error object the try block raised, NoError if none
    settled,          \* how the call settled: [kind, str, error]
    \* ---- the island hash (SpecIsland) ----
    islands,          \* [occurrence -> inputs and astroId of a hydrated component]
    built             \* how many occurrences have had their hash computed

fcVars == <<pc, Component, slots, renderers, hydration, isPage, children,
            slotInstructions, renderer, loopIdx, error, checkLog,
            staticCalls, html, instance, thrown, destination>>

streamVars == <<created, bufferChunks, rebound, resolved, produced, flushed,
                resolveOrder, realDest, parentIdx, parentPhase>>

tsVars == <<tsPc, isPageArg, head, compressHTML, route, str,
            renderedFirstPageChunk, written, attempts, caught, settled>>

hashVars == <<islands, built>>

vars == <<streamVars, fcVars, tsVars, hashVars>>

-----------------------------------------------------------------------------
(* Bounds *)
NumSiblings == 2
MaxChunks == 2

Siblings == 1..NumSiblings

\* The k-th chunk written by sibling i.
Chunk(i, k) == <<i, k>>

RECURSIVE ChunksFromTo(_, _, _)
ChunksFromTo(i, lo, hi) ==
    IF lo > hi THEN <<>> ELSE <<Chunk(i, lo)>> \o ChunksFromTo(i, lo + 1, hi)

\* The chunks of sibling i that a sequence of chunks holds, in order.
ChunksOf(seq, i) == SelectSeq(seq, LAMBDA c : c[1] = i)

-----------------------------------------------------------------------------
(* renderAstroComponent, lines 416-447 *)

\* bufferDestination.write(chunk) as the nested instance calls it: the
\* initial binding pushes onto bufferChunks (line 429), the re-assigned one
\* forwards to the real destination (line 443).
BufferDestinationWrite(i, chunk) ==
    IF rebound[i]
    THEN /\ realDest' = Append(realDest, chunk)
         /\ UNCHANGED bufferChunks
    ELSE /\ bufferChunks' = [bufferChunks EXCEPT ![i] = Append(@, chunk)]
         /\ UNCHANGED realDest

\* renderAstroComponent(...) itself: the buffer starts empty and
\* instance.render(bufferDestination) is started without being awaited; it
\* runs synchronously up to its first suspension, writing n chunks.
CreateInstance(i) ==
    /\ ~created[i]
    /\ \A j \in Siblings : j < i => created[j]
    /\ \E n \in 0..MaxChunks :
        /\ bufferChunks' = [bufferChunks EXCEPT ![i] = ChunksFromTo(i, 1, n)]
        /\ produced' = [produced EXCEPT ![i] = ChunksFromTo(i, 1, n)]
    /\ created' = [created EXCEPT ![i] = TRUE]
    /\ UNCHANGED <<rebound, resolved, flushed, resolveOrder, realDest,
                   parentIdx, parentPhase, fcVars, tsVars, hashVars>>

\* The nested instance resumes and writes its next chunk.
InstanceWrite(i) ==
    /\ created[i]
    /\ ~resolved[i]
    /\ Len(produced[i]) < MaxChunks
    /\ LET chunk == Chunk(i, Len(produced[i]) + 1) IN
        /\ BufferDestinationWrite(i, chunk)
        /\ produced' = [produced EXCEPT ![i] = Append(@, chunk)]
    /\ UNCHANGED <<created, rebound, resolved, flushed, resolveOrder,
                   parentIdx, parentPhase, fcVars, tsVars, hashVars>>

\* instance.render(bufferDestination) finishes: renderPromise resolves.
InstanceResolve(i) ==
    /\ created[i]
    /\ ~resolved[i]
    /\ resolved' = [resolved EXCEPT ![i] = TRUE]
    /\ resolveOrder' = Append(resolveOrder, i)
    /\ UNCHANGED <<created, bufferChunks, rebound, produced, flushed,
                   realDest, parentIdx, parentPhase, fcVars, tsVars, hashVars>>

\* The synchronous part of the returned render(destination), lines 436-443:
\* copy the buffer, empty it, re-assign the write target.
FlushNoRebind(i) ==
    /\ realDest' = realDest \o bufferChunks[i]
    /\ flushed' = [flushed EXCEPT ![i] = Len(bufferChunks[i])]
    /\ bufferChunks' = [bufferChunks EXCEPT ![i] = <<>>]
    /\ UNCHANGED rebound

FlushKeepBuffer(i) ==
    /\ realDest' = realDest \o bufferChunks[i]
    /\ flushed' = [flushed EXCEPT ![i] = Len(bufferChunks[i])]
    /\ rebound' = [rebound EXCEPT ![i] = TRUE]
    /\ UNCHANGED bufferChunks

Flush(i) ==
    /\ realDest' = realDest \o bufferChunks[i]
    /\ flushed' = [flushed EXCEPT ![i] = Len(bufferChunks[i])]
    /\ bufferChunks' = [bufferChunks EXCEPT ![i] = <<>>]
    /\ rebound' = [rebound EXCEPT ![i] = TRUE]

\* The parent calls render(destination) of the next sibling in document
\* order; the call runs up to `await renderPromise` (line 444).
RenderCall(i) ==
    /\ parentIdx = i
    /\ parentPhase = "idle"
    /\ created[i]
    /\ Flush(i)
    /\ parentPhase' = "awaiting"
    /\ UNCHANGED <<created, resolved, produced, resolveOrder, parentIdx, fcVars, tsVars, hashVars>>

\* `await renderPromise` completes, which is when render(destination)
\* completes and the parent moves on to the next sibling.
AwaitEnabledEarly(i) == TRUE

AwaitEnabled(i) == resolved[i]

RenderReturn(i) ==
    /\ parentIdx = i
    /\ parentPhase = "awaiting"
    /\ AwaitEnabled(i)
    /\ parentIdx' = i + 1
    /\ parentPhase' = "idle"
    /\ UNCHANGED <<created, bufferChunks, rebound, resolved, produced,
                   flushed, resolveOrder, realDest, fcVars, tsVars, hashVars>>

-----------------------------------------------------------------------------
(* Data of renderComponent / renderFrameworkComponent *)

MaxRenderers == 2

\* Renderer descriptors (SSRLoadedRenderer): the fields this file reads are
\* name, clientEntrypoint (line 256) and ssr.supportsAstroStaticSlot
\* (lines 307, 333).
Descriptor(n, ce, ss) ==
    [name |-> n, clientEntrypoint |-> ce, supportsAstroStaticSlot |-> ss]

RendererPool ==
    { Descriptor("astro:jsx", FALSE, FALSE),
      Descriptor("@astrojs/react", TRUE, TRUE),
      Descriptor("@astrojs/lit", FALSE, FALSE),
      Descriptor("@astrojs/solid-js", TRUE, FALSE),
      Descriptor("@astrojs/svelte", FALSE, TRUE) }

\* Registries: up to MaxRenderers distinct descriptors in any order.
Registries ==
    { r \in UNION { [1..n -> RendererPool] : n \in 0..MaxRenderers } :
        \A i, j \in DOMAIN r : i # j => r[i] # r[j] }

\* Component values.  kind: what the structural probes of lines 61-67, 83,
\* 148, 195, 469 see; tag: the value of Component[Renderer] ("" when the
\* marker is absent); promised: "no" for a plain value, "pending" for a
\* promise of one, "resolved" once line 457 has awaited it.
ComponentValue(k, t, p) == [kind |-> k, tag |-> t, promised |-> p]

ComponentPool ==
    { ComponentValue(k, "", p) :
        k \in {"falsy", "object", "string", "htmlelement",
               "fragment", "html", "factory"},
        p \in {"no", "pending"} }
    \cup { ComponentValue(k, "", "no") :
            k \in {"voidstring", "unsafestring", "ltstring"} }
    \cup { ComponentValue("object", t, "no") :
            t \in {"@astrojs/react", "@astrojs/lit", "astro:jsx"} }

\* Slot names; a set of them is the slots argument.
SlotKeys == <<"default", "a", "fallback">>

SlotSets == { {}, {"default"}, {"default", "a"}, {"a", "fallback"} }

\* Markup is a sequence of tokens, each standing for the text shown:
\*   "<astro-"  "</astro-"  "slot"  "static-slot"  ">"
\*   " name=default" / " name=a" / " name=fallback"   for  name="<key>"
\*   "<template>" / "<template=a>" / "<template=fallback>" / "</template>"
\*   "<" / "</" / " attrs" / "/>"   parts of a custom element, its tag
\*   name between them
\*   " " / "\"" / "<"   one whitespace, quote or angle character of a name
\*   other tokens are text that starts with a word character.
NameAttr(key) ==
    CASE key = "default" -> " name=default"
      [] key = "a" -> " name=a"
      [] OTHER -> " name=fallback"

TemplateOpen(key) ==
    CASE key = "default" -> "<template>"
      [] key = "a" -> "<template=a>"
      [] OTHER -> "<template=fallback>"

\* What a slot renders to (renderSlots / renderSlotToString, slot.js).
\* Slot "a" holds a hydrated island, whose markup carries a slot marker.
SlotHtml(key) ==
    CASE key = "default" -> <<"D">>
      [] key = "a" -> <<"<astro-", "slot", ">", "A", "</astro-", "slot", ">">>
      [] OTHER -> <<"F">>

\* The streaming instructions rendering a slot leaves behind.
SlotInstr(key) ==
    CASE key = "a" -> <<"instruction-a">>
      [] key = "fallback" -> <<"instruction-fallback">>
      [] OTHER -> <<>>

\* What a renderer's renderToStaticMarkup may return as html.
HtmlPool ==
    { <<>>,
      <<"x">>,
      <<"<astro-", "slot", ">", "D", "</astro-", "slot", ">">>,
      <<"<astro-", "static-slot", ">", "D", "</astro-", "static-slot", ">", "x">>,
      <<"x", "<astro-", "slot", " name=a", ">", "A", "</astro-", "slot", ">">>,
      <<"<astro-", "<astro-", "slot", ">", "slot", ">">> }

\* Hydration as extractDirectives returns it: directive "none" stands for
\* `hydration === null`; value is the directive's argument ("" when the
\* directive was given without a renderer name); ext is the extension of
\* hydration.componentUrl ("" when it has none).
Hydration(d, v, e) == [directive |-> d, value |-> v, ext |-> e]

NoHydration == Hydration("none", "", "")

Exts == {"", "jsx", "svelte"}

HydrationPool ==
    {NoHydration}
    \cup { Hydration("load", "", e) : e \in Exts }
    \cup { Hydration("only", v, e) : v \in {"", "solid", "lit"}, e \in Exts }
    \cup { Hydration("only", "astro:jsx", "") }

-----------------------------------------------------------------------------
(* Pure helpers *)

Range(seq) == { seq[i] : i \in DOMAIN seq }

\* Array.prototype.find / filter(...)[0] over the registry: the first of
\* the indices that satisfy the predicate, 0 for undefined.
FirstIndex(matches) ==
    IF matches = {} THEN 0
    ELSE CHOOSE i \in matches : \A j \in matches : i <= j

\* `@astrojs/${name}` for the names that occur.
Scoped(name) ==
    CASE name = "react" -> "@astrojs/react"
      [] name = "lit" -> "@astrojs/lit"
      [] name = "solid-js" -> "@astrojs/solid-js"
      [] name = "svelte" -> "@astrojs/svelte"
      [] name = "jsx" -> "@astrojs/jsx"
      [] name = "solid" -> "@astrojs/solid"
      [] name = "astro:jsx" -> "@astrojs/astro:jsx"
      [] OTHER -> "@astrojs/"

\* rendererAliases, line 35, applied as lines 165-167 do.
rendererAliases(passedName) ==
    IF passedName = "solid" THEN "solid-js" ELSE passedName

\* guessRenderers, lines 37-57; the argument is the extension.
guessRenderers(extname) ==
    CASE extname = "svelte" -> <<"@astrojs/svelte">>
      [] extname = "vue" -> <<"@astrojs/vue">>
      [] extname \in {"jsx", "tsx"} ->
            <<"@astrojs/react", "@astrojs/preact", "@astrojs/solid-js",
              "@astrojs/vue (jsx)">>
      [] OTHER ->
            <<"@astrojs/react", "@astrojs/preact", "@astrojs/solid-js",
              "@astrojs/vue", "@astrojs/svelte", "@astrojs/lit">>

\* validRenderers, line 107: the indices of the renderers not 'astro:jsx'.
validRenderersAll(regs) == [i \in DOMAIN regs |-> i]

validRenderers(regs) ==
    SelectSeq([i \in DOMAIN regs |-> i], LAMBDA i : regs[i].name # "astro:jsx")

\* A token that starts with a word character (no \b before it after "slot").
StartsWithWordChar(tok) ==
    tok \notin {"<astro-", "</astro-", ">", " name=default", " name=a",
                " name=fallback", "<template>", "<template=a>",
                "<template=fallback>", "</template>", "<", "</", " attrs",
                "/>", " ", "\""}

\* Position of the first ">" at or after position k of h, 0 when none.
\* (Every token that holds a ">" ends with it.)
EndsWithGt(tok) ==
    tok \in {">", "<template>", "<template=a>", "<template=fallback>",
             "</template>", "/>"}

RECURSIVE FirstClose(_, _)
FirstClose(h, k) ==
    IF k > Len(h) THEN 0
    ELSE IF EndsWithGt(h[k]) THEN k
    ELSE FirstClose(h, k + 1)

\* Whether /<\/?astro-slot\b[^>]*>/ (or the static variant) matches at
\* position k of h; the match then ends at MatchEnd.
MarkerAt(h, k, word) ==
    /\ k + 1 <= Len(h)
    /\ h[k] \in {"<astro-", "</astro-"}
    /\ h[k + 1] = word
    /\ k + 2 <= Len(h)
    /\ ~StartsWithWordChar(h[k + 2])
    /\ FirstClose(h, k + 2) # 0

\* String.prototype.replace(exp, '') with a global regular expression: one
\* left-to-right pass removing each non-overlapping match.
RECURSIVE ReplaceFrom(_, _, _)
ReplaceFrom(h, k, word) ==
    IF k > Len(h) THEN <<>>
    ELSE IF MarkerAt(h, k, word)
         THEN ReplaceFrom(h, FirstClose(h, k + 2) + 1, word)
         ELSE <<h[k]>> \o ReplaceFrom(h, k + 1, word)

\* removeStaticAstroSlot, lines 69-74.
removeStaticAstroSlotWrongFlag(h, supportsAstroStaticSlot) ==
    ReplaceFrom(h, 1, IF supportsAstroStaticSlot THEN "slot" ELSE "static-slot")

removeStaticAstroSlot(h, supportsAstroStaticSlot) ==
    ReplaceFrom(h, 1, IF supportsAstroStaticSlot THEN "static-slot" ELSE "slot")

\* String.prototype.includes: needle occurs in h as a contiguous run.
Includes(h, needle) ==
    \E k \in 0..(Len(h) - Len(needle)) :
        \A m \in 1..Len(needle) : h[k + m] = needle[m]

\* Array.prototype.join('') over a sequence of markups.
RECURSIVE Join(_)
Join(parts) ==
    IF parts = <<>> THEN <<>> ELSE Head(parts) \o Join(Tail(parts))

\* Object.keys(children): the slot names present, in their fixed order.
KeysOf(slotSet) == SelectSeq(SlotKeys, LAMBDA k : k \in slotSet)

-----------------------------------------------------------------------------
(* renderComponent and the render strategies it dispatches to *)

Instance(k, n, h, u) ==
    [kind |-> k, isNull |-> n, html |-> h, unrenderedSlots |-> u]

NoInstance == Instance("none", FALSE, <<>>, <<>>)

DestChunk(t, b) == [type |-> t, body |-> b]

IsString(c) ==
    c.kind \in {"string", "voidstring", "unsafestring", "ltstring"}

\* The characters of a string component, as tokens: a run of name characters,
\* or one character of the class /[&<>'"\s]/.
ComponentString(c) ==
    CASE c.kind = "string" -> <<"my-el">>
      [] c.kind = "voidstring" -> <<"br">>
      [] c.kind = "unsafestring" -> <<" ", "br", "\"", "x">>
      [] c.kind = "ltstring" -> <<"<", "b">>
      [] OTHER -> <<>>

\* Line 380: the class /[&<>'"\s]/; its whitespace members.
UnsafeTokens == {"&", "<", ">", "'", "\"", " "}

WhitespaceTokens == {" "}

\* String.prototype.trim.
RECURSIVE TrimStart(_)
TrimStart(t) ==
    IF t # <<>> /\ Head(t) \in WhitespaceTokens THEN TrimStart(Tail(t)) ELSE t

RECURSIVE TrimEnd(_)
TrimEnd(t) ==
    IF t # <<>> /\ t[Len(t)] \in WhitespaceTokens
    THEN TrimEnd(SubSeq(t, 1, Len(t) - 1))
    ELSE t

Trim(t) == TrimEnd(TrimStart(t))

\* split(unsafe)[0]: what precedes the first run of unsafe characters.
SplitFirst(t) ==
    LET hits == {i \in DOMAIN t : t[i] \in UnsafeTokens}
    IN  IF hits = {} THEN t
        ELSE SubSeq(t, 1, (CHOOSE i \in hits : \A j \in hits : i <= j) - 1)

\* Lines 379-383.
sanitizeElementName(tag) ==
    IF \A i \in DOMAIN tag : tag[i] \notin UnsafeTokens
    THEN tag
    ELSE Trim(SplitFirst(Trim(tag)))

\* voidElementNames (util.js), over the names the components here use.
voidElementNames == {<<"br">>, <<"hr">>, <<"img">>, <<"input">>}

\* renderSlots (slot.js): the rendered children, and the instructions.
RenderedChildren(slotSet) == [k \in slotSet |-> SlotHtml(k)]

RenderedInstructions(slotSet) ==
    Join([i \in DOMAIN KeysOf(slotSet) |-> SlotInstr(KeysOf(slotSet)[i])])

\* Object.values(children).join(''), line 275.
ChildSlots(ch) ==
    LET keys == KeysOf(DOMAIN ch)
    IN  Join([i \in DOMAIN keys |-> ch[keys[i]]])

Fail(err) ==
    /\ thrown' = err
    /\ pc' = "failed"

\* `Component = await Component`, lines 456-458.
RenderComponentAwait ==
    /\ pc = "renderComponent"
    /\ Component.promised = "pending"
    /\ Component' = [Component EXCEPT !.promised = "resolved"]
    /\ UNCHANGED <<pc, slots, renderers, hydration, isPage, children,
                   slotInstructions, renderer, loopIdx, error, checkLog,
                   staticCalls, html, instance, thrown, destination,
                   streamVars, tsVars,
                   hashVars>>

\* renderFragmentComponent, lines 385-396, reached from line 461.  A slot
\* that is passed renders to its content; rendering an absent slot gives
\* null/undefined or the empty string.
FragmentChildrenAnySlot(slotSet) ==
    IF slotSet # {}
    THEN Join([i \in DOMAIN KeysOf(slotSet) |-> SlotHtml(KeysOf(slotSet)[i])])
    ELSE <<>>

FragmentChildren(slotSet) ==
    IF "default" \in slotSet THEN SlotHtml("default") ELSE <<>>

RenderFragmentComponent ==
    /\ pc = "renderComponent"
    /\ Component.promised # "pending"
    /\ Component.kind = "fragment"
    /\ \E isNull \in (IF "default" \in slots THEN {FALSE} ELSE BOOLEAN) :
        instance' = Instance("fragment", isNull, FragmentChildren(slots), <<>>)
    /\ pc' = "instance"
    /\ UNCHANGED <<Component, slots, renderers, hydration, isPage, children,
                   slotInstructions, renderer, loopIdx, error, checkLog,
                   staticCalls, html, thrown, destination, streamVars, tsVars,
                   hashVars>>

\* renderHTMLComponent, lines 398-414, reached from line 466.
RenderHTMLComponent ==
    /\ pc = "renderComponent"
    /\ Component.promised # "pending"
    /\ Component.kind = "html"
    /\ children' = RenderedChildren(slots)
    /\ slotInstructions' = RenderedInstructions(slots)
    /\ instance' = Instance("html", FALSE,
                            RenderedInstructions(slots) \o <<"H">>, <<>>)
    /\ pc' = "instance"
    /\ UNCHANGED <<Component, slots, renderers, hydration, isPage, renderer,
                   loopIdx, error, checkLog, staticCalls, html, thrown,
                   destination, streamVars, tsVars,
                   hashVars>>

\* Line 470: a template factory goes to renderAstroComponent (SpecStream).
RenderAstroComponent ==
    /\ pc = "renderComponent"
    /\ Component.promised # "pending"
    /\ Component.kind = "factory"
    /\ instance' = Instance("astro", FALSE, <<>>, <<>>)
    /\ pc' = "instance"
    /\ UNCHANGED <<Component, slots, renderers, hydration, isPage, children,
                   slotInstructions, renderer, loopIdx, error, checkLog,
                   staticCalls, html, thrown, destination, streamVars, tsVars,
                   hashVars>>

-----------------------------------------------------------------------------
(* renderFrameworkComponent, lines 76-377 *)

\* Lines 83-87: `!Component && !_props['client:only']`.
FalsyGuardInverted(comp, hyd) ==
    comp.kind = "falsy" /\ hyd.directive = "only"

FalsyGuard(comp, hyd) ==
    comp.kind = "falsy" /\ hyd.directive # "only"

\* Lines 83-108: the guard, then result.renderers is read and renderSlots
\* is called.
FrameworkEntry ==
    /\ pc = "renderComponent"
    /\ Component.promised # "pending"
    /\ Component.kind \notin {"fragment", "html", "factory"}
    /\ IF FalsyGuard(Component, hydration)
       THEN /\ Fail("ComponentIsFalsy")
            /\ UNCHANGED renderers
       ELSE /\ \E regs \in Registries : renderers' = regs
            /\ pc' = "renderSlots"
            /\ UNCHANGED thrown
    /\ UNCHANGED <<Component, slots, hydration, isPage, children,
                   slotInstructions, renderer, loopIdx, error, checkLog,
                   staticCalls, html, instance, destination, streamVars, tsVars,
                   hashVars>>

\* Lines 116-126: the renderer named by Component[Renderer], if any.
TaggedRendererNone(regs, comp) == 0

TaggedRenderer(regs, comp) ==
    IF comp.kind # "falsy" /\ comp.tag # ""
    THEN FirstIndex({ i \in DOMAIN regs : regs[i].name = comp.tag })
    ELSE 0

\* Lines 162-182: the three attempts of "only" mode.
ExplicitRenderer(regs, hyd) ==
    IF hyd.value # ""
    THEN LET rendererName == rendererAliases(hyd.value)
         IN  FirstIndex({ i \in DOMAIN regs :
                            \/ regs[i].name = Scoped(rendererName)
                            \/ regs[i].name = rendererName })
    ELSE 0

SingleRenderer(regs) ==
    IF Len(validRenderers(regs)) = 1 THEN validRenderers(regs)[1] ELSE 0

ExtensionRenderer(regs, hyd) ==
    FirstIndex({ i \in DOMAIN regs :
                    regs[i].name = Scoped(hyd.ext) \/ regs[i].name = hyd.ext })

OnlyRendererNoDefault(regs, hyd) ==
    IF ExplicitRenderer(regs, hyd) # 0 THEN ExplicitRenderer(regs, hyd)
    ELSE ExtensionRenderer(regs, hyd)

OnlyRendererSingleFirst(regs, hyd) ==
    IF SingleRenderer(regs) # 0 THEN SingleRenderer(regs)
    ELSE IF ExplicitRenderer(regs, hyd) # 0 THEN ExplicitRenderer(regs, hyd)
    ELSE ExtensionRenderer(regs, hyd)

OnlyRenderer(regs, hyd) ==
    IF ExplicitRenderer(regs, hyd) # 0 THEN ExplicitRenderer(regs, hyd)
    ELSE IF SingleRenderer(regs) # 0 THEN SingleRenderer(regs)
    ELSE ExtensionRenderer(regs, hyd)

\* renderSlots returns (line 108); then the synchronous resolution up to
\* the first check call: lines 112-128 or 161-183.
AfterRenderSlots ==
    /\ pc = "renderSlots"
    /\ children' = RenderedChildren(slots)
    /\ slotInstructions' = RenderedInstructions(slots)
    /\ IF hydration.directive # "only"
       THEN /\ renderer' = TaggedRenderer(renderers, Component)
            /\ pc' = IF TaggedRenderer(renderers, Component) # 0
                     THEN "resolved" ELSE "check"
       ELSE /\ renderer' = OnlyRenderer(renderers, hydration)
            /\ pc' = "resolved"
    /\ loopIdx' = 1
    /\ UNCHANGED <<Component, slots, renderers, hydration, isPage, error,
                   checkLog, staticCalls, html, instance, thrown,
                   destination, streamVars, tsVars,
                   hashVars>>

\* Where the loop of lines 130-139 goes after the check of renderer i
\* returned true.
AfterClaimContinue(i) ==
    /\ renderer' = i
    /\ loopIdx' = i + 1
    /\ UNCHANGED pc

AfterClaim(i) ==
    /\ renderer' = i
    /\ pc' = "resolved"
    /\ UNCHANGED loopIdx

\* Line 137: `error ??= e` keeps the first exception.
CaptureLastError(err, i) == i

CaptureError(err, i) == IF err = 0 THEN i ELSE err

\* One iteration of the loop of lines 130-139: the check of the next
\* renderer is called and returns true, returns false or throws.
CheckCall ==
    /\ pc = "check"
    /\ loopIdx <= Len(renderers)
    /\ \E outcome \in {"true", "false", "throw"} :
        /\ checkLog' = Append(checkLog, <<loopIdx, outcome>>)
        /\ CASE outcome = "true" ->
                    /\ AfterClaim(loopIdx)
                    /\ UNCHANGED error
             [] outcome = "throw" ->
                    /\ error' = CaptureError(error, loopIdx)
                    /\ loopIdx' = loopIdx + 1
                    /\ UNCHANGED <<renderer, pc>>
             [] OTHER ->
                    /\ loopIdx' = loopIdx + 1
                    /\ UNCHANGED <<renderer, pc, error>>
    /\ UNCHANGED <<Component, slots, renderers, hydration, isPage, children,
                   slotInstructions, staticCalls, html, instance, thrown,
                   destination, streamVars, tsVars,
                   hashVars>>

\* The loop is over with no renderer: lines 143-160.  Whether the global
\* HTMLElement exists depends on the host.
CheckLoopEnd ==
    /\ pc = "check"
    /\ loopIdx > Len(renderers)
    /\ IF renderer = 0 /\ error # 0
       THEN /\ Fail("CheckError")
            /\ UNCHANGED instance
       ELSE IF renderer = 0 /\ Component.kind = "htmlelement"
       THEN \E hasHTMLElement \in BOOLEAN :
                IF hasHTMLElement
                THEN /\ instance' = Instance("element", FALSE,
                                             <<"<html-element>">>, <<>>)
                     /\ pc' = "instance"
                     /\ UNCHANGED thrown
                ELSE /\ pc' = "resolved"
                     /\ UNCHANGED <<instance, thrown>>
       ELSE /\ pc' = "resolved"
            /\ UNCHANGED <<instance, thrown>>
    /\ UNCHANGED <<Component, slots, renderers, hydration, isPage, children,
                   slotInstructions, renderer, loopIdx, error, checkLog,
                   staticCalls, html, destination, streamVars, tsVars,
                   hashVars>>

\* Lines 196-198: the valid renderers whose name is a probable one.
matchingRenderersAll(regs, hyd) == validRenderers(regs)

matchingRenderers(regs, hyd) ==
    SelectSeq(validRenderers(regs),
              LAMBDA i : regs[i].name \in Range(guessRenderers(hyd.ext)))

\* Lines 186-237 when no renderer was resolved.
Unclaimed ==
    /\ pc = "resolved"
    /\ renderer = 0
    /\ IF hydration.directive = "only"
       THEN /\ Fail("NoClientOnlyHint")
            /\ UNCHANGED renderer
       ELSE IF ~IsString(Component)
       THEN LET matching == matchingRenderers(renderers, hydration) IN
            IF Len(matching) = 0
            THEN /\ Fail("NoMatchingRenderer")
                 /\ UNCHANGED renderer
            ELSE IF Len(matching) = 1
            THEN /\ renderer' = matching[1]
                 /\ pc' = "static"
                 /\ UNCHANGED thrown
            ELSE /\ Fail("UnableToRender")
                 /\ UNCHANGED renderer
       ELSE /\ pc' = "validate"
            /\ UNCHANGED <<renderer, thrown>>
    /\ UNCHANGED <<Component, slots, renderers, hydration, isPage, children,
                   slotInstructions, loopIdx, error, checkLog, staticCalls,
                   html, instance, destination, streamVars, tsVars,
                   hashVars>>

\* Lines 239-240: in "only" mode the html is the rendered fallback slot.
FallbackSlot ==
    /\ pc = "resolved"
    /\ renderer # 0
    /\ hydration.directive = "only"
    /\ html' = IF "fallback" \in slots THEN SlotHtml("fallback") ELSE <<>>
    /\ pc' = "validate"
    /\ UNCHANGED <<Component, slots, renderers, hydration, isPage, children,
                   slotInstructions, renderer, loopIdx, error, checkLog,
                   staticCalls, instance, thrown, destination, streamVars, tsVars,
                   hashVars>>

\* Lines 217-223 and 242-248: renderToStaticMarkup of the selected renderer
\* is called; it returns html or throws.
StaticMarkup ==
    /\ \/ pc = "static"
       \/ pc = "resolved" /\ renderer # 0 /\ hydration.directive # "only"
    /\ staticCalls' = Append(staticCalls, renderer)
    /\ \/ /\ Fail("RendererError")
          /\ UNCHANGED html
       \/ /\ \E h \in HtmlPool : html' = h
          /\ pc' = "validate"
          /\ UNCHANGED thrown
    /\ UNCHANGED <<Component, slots, renderers, hydration, isPage, children,
                   slotInstructions, renderer, loopIdx, error, checkLog,
                   instance, destination, streamVars, tsVars,
                   hashVars>>

\* Lines 254-259: a resolved renderer without client entrypoint, other than
\* '@astrojs/lit', under a hydration directive.
MissingEntrypointOnlyMode(regs, r, hyd) ==
    /\ r # 0
    /\ ~regs[r].clientEntrypoint
    /\ regs[r].name # "@astrojs/lit"
    /\ hyd.directive = "only"

MissingEntrypoint(regs, r, hyd) ==
    /\ r # 0
    /\ ~regs[r].clientEntrypoint
    /\ regs[r].name # "@astrojs/lit"
    /\ hyd.directive # "none"

\* Lines 254-272: the validation, then whether the custom-element fallback
\* applies.
Validate ==
    /\ pc = "validate"
    /\ IF MissingEntrypoint(renderers, renderer, hydration)
       THEN Fail("NoClientEntrypoint")
       ELSE /\ pc' = IF html = <<>> /\ IsString(Component)
                     THEN "element" ELSE "build"
            /\ UNCHANGED thrown
    /\ UNCHANGED <<Component, slots, renderers, hydration, isPage, children,
                   slotInstructions, renderer, loopIdx, error, checkLog,
                   staticCalls, html, instance, destination, streamVars, tsVars,
                   hashVars>>

\* Lines 277-281: the element markup of a string component.
ElementMarkup(comp, childSlots) ==
    LET Tag == sanitizeElementName(ComponentString(comp))
    IN  <<"<">> \o Tag \o <<" attrs">>
        \o (IF childSlots = <<>> /\ Tag \in voidElementNames
            THEN <<"/>">>
            ELSE <<">">> \o childSlots \o <<"</">> \o Tag \o <<">">>)

\* Lines 272-291: the custom element without a renderer.
CustomElement ==
    /\ pc = "element"
    /\ html' = ElementMarkup(Component, ChildSlots(children))
    /\ pc' = "build"
    /\ UNCHANGED <<Component, slots, renderers, hydration, isPage, children,
                   slotInstructions, renderer, loopIdx, error, checkLog,
                   staticCalls, instance, thrown, destination, streamVars, tsVars,
                   hashVars>>

\* Lines 333-338: the marker a slot is expected to have left in the html.
expectedHTML(key) ==
    IF key = "default"
    THEN <<"<astro-", "slot", ">">>
    ELSE <<"<astro-", "slot", NameAttr(key), ">">>

\* Lines 329-346.
unrenderedSlotsAll(h, ch) == KeysOf(DOMAIN ch)

unrenderedSlots(h, ch) ==
    IF h # <<>>
    THEN SelectSeq(KeysOf(DOMAIN ch), LAMBDA key : ~Includes(h, expectedHTML(key)))
    ELSE KeysOf(DOMAIN ch)

\* Lines 347-357.
template(keys, ch) ==
    Join([i \in DOMAIN keys |->
            <<TemplateOpen(keys[i])>> \o ch[keys[i]] \o <<"</template>">>])

\* Lines 293-376: the render instance is built.  generateHydrateScript
\* (hydration.js) is handed `renderer!`; what it does with an undefined
\* renderer is not decided in this file.
Build ==
    /\ pc = "build"
    /\ IF hydration.directive = "none"
       THEN /\ instance' = Instance("static", FALSE, html, <<>>)
            /\ pc' = "instance"
            /\ UNCHANGED thrown
       ELSE \/ /\ renderer = 0
               /\ Fail("HydrateScriptError")
               /\ UNCHANGED instance
            \/ /\ instance' = Instance("island", FALSE,
                    html \o template(unrenderedSlots(html, children), children),
                    unrenderedSlots(html, children))
               /\ pc' = "instance"
               /\ UNCHANGED thrown
    /\ UNCHANGED <<Component, slots, renderers, hydration, isPage, children,
                   slotInstructions, renderer, loopIdx, error, checkLog,
                   staticCalls, html, destination, streamVars, tsVars,
                   hashVars>>

InstructionChunks(instrs) ==
    [i \in DOMAIN instrs |-> DestChunk("instruction", <<instrs[i]>>)]

\* Lines 302-310: what the instance without hydration writes as markup.
StaticWritesUnstripped(regs, r, page, h) ==
    IF h # <<>> THEN <<DestChunk("html", h)>> ELSE <<>>

StaticWrites(regs, r, page, h) ==
    IF page \/ (r # 0 /\ regs[r].name = "astro:jsx")
    THEN <<DestChunk("html", h)>>
    ELSE IF h # <<>>
    THEN <<DestChunk("html",
             removeStaticAstroSlot(h,
                IF r # 0 THEN regs[r].supportsAstroStaticSlot ELSE FALSE))>>
    ELSE <<>>

\* Lines 366-375: what the instance of a hydrated component writes.
IslandWritesDirectiveLast(instrs, hyd, h) ==
    InstructionChunks(instrs)
    \o <<DestChunk("island", h), DestChunk("directive", <<hyd.directive>>)>>

IslandWrites(instrs, hyd, h) ==
    InstructionChunks(instrs)
    \o <<DestChunk("directive", <<hyd.directive>>), DestChunk("island", h)>>

\* render(destination) of each kind of instance: lines 391-394 (fragment),
\* 410-412 (html), 435-445 (astro), 156-158 (element), 295-311 (static),
\* 366-375 (island).
Writes(inst) ==
    CASE inst.kind = "fragment" ->
            IF inst.isNull THEN <<>> ELSE <<DestChunk("html", inst.html)>>
      [] inst.kind \in {"html", "element"} -> <<DestChunk("html", inst.html)>>
      [] inst.kind = "static" ->
            InstructionChunks(slotInstructions)
            \o StaticWrites(renderers, renderer, isPage, inst.html)
      [] inst.kind = "island" ->
            IslandWrites(slotInstructions, hydration, inst.html)
      [] OTHER -> <<>>

\* The caller invokes render(destination) on the instance it was handed.
\* A template-factory instance writes the chunks of its template.
Render ==
    /\ pc = "instance"
    /\ IF instance.kind = "astro"
       THEN \E n \in 0..1 :
                destination' = [i \in 1..n |-> DestChunk("html", <<"T">>)]
       ELSE destination' = Writes(instance)
    /\ pc' = "done"
    /\ UNCHANGED <<Component, slots, renderers, hydration, isPage, children,
                   slotInstructions, renderer, loopIdx, error, checkLog,
                   staticCalls, html, instance, thrown, streamVars, tsVars,
                   hashVars>>

\* The props: a hydration directive or none; isPage is read only where
\* there is no hydration (line 302).
PropsPool ==
    { <<h, p>> \in HydrationPool \X BOOLEAN : p => h = NoHydration }

\* renderComponentToString has not been called.
NoError == [isAstroError |-> FALSE, loc |-> "none", message |-> "none"]

Pending == [kind |-> "pending", str |-> <<>>, error |-> NoError]

IdleToString ==
    /\ tsPc = "off"
    /\ isPageArg = FALSE
    /\ head = <<>>
    /\ compressHTML = FALSE
    /\ route = "undefined"
    /\ str = <<>>
    /\ renderedFirstPageChunk = FALSE
    /\ written = <<>>
    /\ attempts = 0
    /\ caught = NoError
    /\ settled = Pending

\* No hydrated component has been described.
IdleIsland ==
    /\ islands = <<>>
    /\ built = 0

IdleFC ==
    /\ pc = "off"
    /\ Component = ComponentValue("object", "", "no")
    /\ slots = {}
    /\ renderers = <<>>
    /\ hydration = NoHydration
    /\ isPage = FALSE
    /\ children = <<>>
    /\ slotInstructions = <<>>
    /\ renderer = 0
    /\ loopIdx = 1
    /\ error = 0
    /\ checkLog = <<>>
    /\ staticCalls = <<>>
    /\ html = <<>>
    /\ instance = NoInstance
    /\ thrown = "none"
    /\ destination = <<>>

IdleStream ==
    /\ created = [i \in Siblings |-> FALSE]
    /\ bufferChunks = [i \in Siblings |-> <<>>]
    /\ rebound = [i \in Siblings |-> FALSE]
    /\ resolved = [i \in Siblings |-> FALSE]
    /\ produced = [i \in Siblings |-> <<>>]
    /\ flushed = [i \in Siblings |-> 0]
    /\ resolveOrder = <<>>
    /\ realDest = <<>>
    /\ parentIdx = 1
    /\ parentPhase = "idle"

InitFC ==
    /\ IdleStream
    /\ IdleToString
    /\ IdleIsland
    /\ pc = "renderComponent"
    /\ Component \in ComponentPool
    /\ slots \in SlotSets
    /\ \E p \in PropsPool :
        /\ hydration = p[1]
        /\ isPage = p[2]
    /\ renderers = <<>>
    /\ children = <<>>
    /\ slotInstructions = <<>>
    /\ renderer = 0
    /\ loopIdx = 1
    /\ error = 0
    /\ checkLog = <<>>
    /\ staticCalls = <<>>
    /\ html = <<>>
    /\ instance = NoInstance
    /\ thrown = "none"
    /\ destination = <<>>

NextFC ==
    \/ RenderComponentAwait
    \/ RenderFragmentComponent
    \/ RenderHTMLComponent
    \/ RenderAstroComponent
    \/ FrameworkEntry
    \/ AfterRenderSlots
    \/ CheckCall
    \/ CheckLoopEnd
    \/ Unclaimed
    \/ FallbackSlot
    \/ StaticMarkup
    \/ Validate
    \/ CustomElement
    \/ Build
    \/ Render

SpecFC == InitFC /\ [][NextFC]_vars

-----------------------------------------------------------------------------
InitStream == IdleStream /\ IdleFC /\ IdleToString /\ IdleIsland

NextStream ==
    \E i \in Siblings :
        \/ CreateInstance(i)
        \/ InstanceWrite(i)
        \/ InstanceResolve(i)
        \/ RenderCall(i)
        \/ RenderReturn(i)

SpecStream == InitStream /\ [][NextStream]_vars

\* render(destination) of sibling i has completed.
RenderCompleted(i) == parentIdx > i

-----------------------------------------------------------------------------
(* renderComponentToString, lines 476-531.  renderComponent and the render
   of the instance it returns are seen from outside: either raises some
   error object, and render passes chunks to destination.write. *)
MaxWrites == 3

\* Chunks a render instance may pass to destination.write: text, text that
\* starts with a doctype, text with a doctype further in, a Response, a
\* render instruction.
ChunkPool ==
    { DestChunk("text", <<"x">>),
      DestChunk("text", <<"<!doctype html>", "x">>),
      DestChunk("text", <<"x", "<!doctype html>">>),
      DestChunk("response", <<>>),
      DestChunk("instruction", <<"i">>) }

\* String(chunk), line 503.
StringOf(chunk) ==
    CASE chunk.type = "response" -> <<"[object Response]">>
      [] chunk.type = "instruction" -> <<"[object Object]">>
      [] OTHER -> chunk.body

\* /<!doctype html/i.test(text), line 503: the pattern is not anchored.
TestDoctype(text) ==
    \E i \in DOMAIN text :
        text[i] \in {"<!doctype html>", "<!DOCTYPE html>", "<!DOCTYPE html>\n"}

\* Line 504.
Doctype(compress) ==
    IF compress THEN "<!DOCTYPE html>" ELSE "<!DOCTYPE html>\n"

\* chunkToString (common.js): the text of a text chunk, the script an
\* instruction renders to.
chunkToString(chunk) ==
    IF chunk.type = "instruction" THEN <<"script">> ELSE chunk.body

\* Lines 499-513: destination.write applied to the pair st of str and
\* renderedFirstPageChunk.
destinationWrite(st, chunk, page, compress, hd) ==
    LET first == page /\ ~st.renderedFirstPageChunk
        pre == IF first /\ ~TestDoctype(StringOf(chunk))
               THEN <<Doctype(compress)>> \o hd
               ELSE <<>>
    IN  [renderedFirstPageChunk |-> st.renderedFirstPageChunk \/ first,
         str |-> st.str \o pre
                 \o (IF chunk.type = "response" THEN <<>>
                     ELSE chunkToString(chunk))]

\* Error objects renderComponent or render may raise: structured (AstroError)
\* or not, with a location of their own or without.
ErrorPool ==
    { [isAstroError |-> a, loc |-> l, message |-> m] :
        a \in BOOLEAN, l \in {"none", "own"}, m \in {"m1", "m2"} }

Routes == {"undefined", "src/pages/index.astro"}

\* Lines 521-525: the catch block's treatment of the error object.
LocatedErrorAlways(e, file) == [e EXCEPT !.loc = file]

LocatedError(e, file) ==
    IF e.isAstroError /\ e.loc = "none" THEN [e EXCEPT !.loc = file] ELSE e

\* Line 515: renderComponent is called and rejects.
ResolveFails ==
    /\ tsPc = "start"
    /\ attempts' = attempts + 1
    /\ caught' \in ErrorPool
    /\ tsPc' = "caught"
    /\ UNCHANGED <<isPageArg, head, compressHTML, route, str,
                   renderedFirstPageChunk, written, settled, streamVars,
                   fcVars, hashVars>>

\* Line 515: renderComponent is called and returns a render instance.
ResolveReturns ==
    /\ tsPc = "start"
    /\ attempts' = attempts + 1
    /\ tsPc' = "rendering"
    /\ UNCHANGED <<isPageArg, head, compressHTML, route, str,
                   renderedFirstPageChunk, written, caught, settled,
                   streamVars, fcVars, hashVars>>

\* Lines 499-513: the instance passes one chunk to destination.write.
DestinationWrite ==
    /\ tsPc = "rendering"
    /\ Len(written) < MaxWrites
    /\ \E chunk \in ChunkPool :
        LET st == destinationWrite(
                    [renderedFirstPageChunk |-> renderedFirstPageChunk,
                     str |-> str],
                    chunk, isPageArg, compressHTML, head)
        IN  /\ written' = Append(written, chunk)
            /\ str' = st.str
            /\ renderedFirstPageChunk' = st.renderedFirstPageChunk
    /\ UNCHANGED <<tsPc, isPageArg, head, compressHTML, route, attempts,
                   caught, settled, streamVars, fcVars, hashVars>>

\* Line 516: render(destination) rejects, after whatever it wrote.
RenderFails ==
    /\ tsPc = "rendering"
    /\ caught' \in ErrorPool
    /\ tsPc' = "caught"
    /\ UNCHANGED <<isPageArg, head, compressHTML, route, str,
                   renderedFirstPageChunk, written, attempts, settled,
                   streamVars, fcVars, hashVars>>

\* Lines 516, 530: render(destination) resolves and str is returned.
ReturnStr ==
    /\ tsPc = "rendering"
    /\ settled' = [kind |-> "returned", str |-> str, error |-> NoError]
    /\ tsPc' = "done"
    /\ UNCHANGED <<isPageArg, head, compressHTML, route, str,
                   renderedFirstPageChunk, written, attempts, caught,
                   streamVars, fcVars, hashVars>>

\* Lines 517-528: the catch block re-throws the error it caught.
Catch ==
    /\ tsPc = "caught"
    /\ settled' = [kind |-> "rejected", str |-> <<>>,
                   error |-> LocatedError(caught, route)]
    /\ tsPc' = "done"
    /\ UNCHANGED <<isPageArg, head, compressHTML, route, str,
                   renderedFirstPageChunk, written, attempts, caught,
                   streamVars, fcVars, hashVars>>

\* Lines 476-495: the call, with its arguments and the head it computed.
InitToString ==
    /\ IdleStream
    /\ IdleFC
    /\ IdleIsland
    /\ tsPc = "start"
    /\ isPageArg \in BOOLEAN
    /\ head \in {<<>>, <<"<head>">>}
    /\ compressHTML \in BOOLEAN
    /\ route \in Routes
    /\ str = <<>>
    /\ renderedFirstPageChunk = FALSE
    /\ written = <<>>
    /\ attempts = 0
    /\ caught = NoError
    /\ settled = Pending

NextToString ==
    \/ ResolveFails
    \/ ResolveReturns
    \/ DestinationWrite
    \/ RenderFails
    \/ ReturnStr
    \/ Catch

SpecToString == InitToString /\ [][NextToString]_vars

-----------------------------------------------------------------------------
(* The island hash, lines 315-321: NumIslands hydrated components reach the
   computation of astroId one after the other. *)
NumIslands == 2

\* What line 316 reads of one hydrated component.
HashInputs ==
    [exportName : {"default", "Counter"},
     componentUrl : {"/src/A.jsx", "/src/B.jsx"},
     html : {<<"x">>, <<"y">>},
     props : {<<>>, <<"n=1">>}]

\* What else is at hand when the hash is computed.
HashContexts ==
    { [displayName |-> d, registry |-> r, slotInstructions |-> i] :
        <<d, r, i>> \in { <<"A", <<>>, <<>> >>,
                          <<"B", <<>>, <<>> >>,
                          <<"A", <<"@astrojs/react">>, <<>> >>,
                          <<"A", <<>>, <<"instruction-a">> >> } }

Occurrence(in, ctx) == [in |-> in, ctx |-> ctx, astroId |-> <<>>]

\* serializeProps (serialize.js): the props as a JSON text.
serializeProps(props) == <<"{">> \o props \o <<"}">>

\* shorthash (shorthash.js), idealised as free of collisions: the digest
\* stands for the text digested.
shorthash(text) == <<"#">> \o text

\* Lines 316-321.
astroIdNamed(occ) ==
    shorthash(<<"<!--", occ.in.exportName, ":", occ.in.componentUrl, "-->",
                "\n">>
              \o occ.in.html \o <<"\n", occ.ctx.displayName>>
              \o serializeProps(occ.in.props))

astroId(occ) ==
    shorthash(<<"<!--", occ.in.exportName, ":", occ.in.componentUrl, "-->",
                "\n">>
              \o occ.in.html \o <<"\n">> \o serializeProps(occ.in.props))

\* The next hydrated component reaches line 316.
ComputeAstroId ==
    /\ built < NumIslands
    /\ islands' = [islands EXCEPT ![built + 1].astroId = astroId(islands[built + 1])]
    /\ built' = built + 1
    /\ UNCHANGED <<streamVars, fcVars, tsVars>>

InitIsland ==
    /\ IdleStream
    /\ IdleFC
    /\ IdleToString
    /\ islands \in [1..NumIslands ->
                      {Occurrence(in, ctx) : in \in HashInputs,
                                             ctx \in HashContexts}]
    /\ built = 0

NextIsland == ComputeAstroId

SpecIsland == InitIsland /\ [][NextIsland]_vars

-----------------------------------------------------------------------------
\* C1: once render(destination) of a template-factory instance has
\* completed, the real destination holds exactly the chunks the instance
\* wrote, in the order it wrote them, none lost and none duplicated,
\* whatever the interleaving of its writes with the flush.
C1_FlushPreservesChunks ==
    \A i \in Siblings :
        RenderCompleted(i) => ChunksOf(realDest, i) = produced[i]

\* A run in which part of the output was buffered and part was written
\* after the flush, and render() has completed.
C1_Witness ==
    /\ RenderCompleted(1)
    /\ flushed[1] >= 1
    /\ Len(produced[1]) > flushed[1]

\* C2: with siblings rendered in document order (A.render awaited before
\* B.render is called), every chunk of an earlier sibling precedes every
\* chunk of a later one in the destination, whichever finishes first.
C2_DocumentOrder ==
    \A p, q \in 1..Len(realDest) :
        p < q => realDest[p][1] <= realDest[q][1]

\* B finished producing before A did, and both delivered chunks.
C2_Witness ==
    /\ NumSiblings >= 2
    /\ RenderCompleted(2)
    /\ resolveOrder[1] = 2
    /\ Len(produced[1]) >= 1
    /\ Len(produced[2]) >= 1
    /\ flushed[1] < Len(produced[1])

-----------------------------------------------------------------------------
(* Properties of renderer resolution *)

\* The resolution of lines 110-183 is over.
ResolutionDone == pc \notin {"off", "renderComponent", "renderSlots", "check"}

NormalMode == hydration.directive # "only"

\* The component carries a pre-tag naming a registered renderer.
TagRegistered ==
    /\ Component.tag # ""
    /\ \E i \in DOMAIN renderers : renderers[i].name = Component.tag

TaggedIndex ==
    CHOOSE i \in DOMAIN renderers :
        /\ renderers[i].name = Component.tag
        /\ \A j \in DOMAIN renderers : j < i => renderers[j].name # Component.tag

\* C3 as stated: under every hydration directive, "only" included, a
\* pre-tag naming a registered renderer selects that renderer and no
\* capability check is invoked.
C3_TagSelectsUnderEveryDirective ==
    (ResolutionDone /\ TagRegistered)
        => (renderer = TaggedIndex /\ checkLog = <<>>)

\* C3 amended: under every hydration directive other than "only" (none
\* included), a pre-tag naming a registered renderer selects that renderer
\* and no capability check is invoked; under "only" the pre-tag is not
\* consulted (and no capability check is invoked either).
C3_TagSelectsOutsideOnly ==
    /\ (ResolutionDone /\ TagRegistered /\ NormalMode)
            => (renderer = TaggedIndex /\ checkLog = <<>>)
    /\ ~NormalMode => checkLog = <<>>

\* The tagged renderer stands second in the registry and was selected
\* without the first one being asked.
C3_Witness ==
    /\ pc = "done"
    /\ NormalMode
    /\ TagRegistered
    /\ Len(renderers) >= 2
    /\ renderer = 2
    /\ staticCalls = <<2>>

C5_SingleRendererDefault ==
    (/\ ResolutionDone
     /\ hydration.directive = "only"
     /\ hydration.value = ""
     /\ Len(validRenderers(renderers)) = 1)
        => (/\ renderer = validRenderers(renderers)[1]
            /\ checkLog = <<>>
            /\ staticCalls = <<>>)

\* The single valid renderer stands behind 'astro:jsx', the component's
\* extension names no renderer, and the island was written.
C5_Witness ==
    /\ pc = "done"
    /\ hydration.directive = "only"
    /\ hydration.value = ""
    /\ Len(renderers) = 2
    /\ renderers[1].name = "astro:jsx"
    /\ renderer = 2
    /\ instance.kind = "island"

-----------------------------------------------------------------------------
(* Properties of the dispatcher *)

\* C6: for a Fragment component, given directly or through a promise, the
\* instance writes exactly the rendered default slot and nothing else: one
\* chunk holding that content, and no write when it rendered to null.
C6_FragmentWritesDefaultSlotOnly ==
    (Component.kind = "fragment" /\ pc = "done")
        => /\ instance.kind = "fragment"
           /\ destination =
                IF instance.isNull THEN <<>>
                ELSE <<DestChunk("html",
                        IF "default" \in slots THEN SlotHtml("default")
                        ELSE <<>>)>>
           /\ instance.isNull => "default" \notin slots
           /\ checkLog = <<>> /\ staticCalls = <<>>

\* A promised Fragment with a default and a named slot wrote its default.
C6_Witness ==
    /\ pc = "done"
    /\ Component.kind = "fragment"
    /\ Component.promised = "resolved"
    /\ slots = {"default", "a"}
    /\ destination = <<DestChunk("html", <<"D">>)>>

\* No write at all where the default slot rendered to null.
C6_WitnessNull ==
    /\ pc = "done"
    /\ Component.kind = "fragment"
    /\ instance.isNull
    /\ destination = <<>>

\* C7: a falsy component without the client-only directive makes the call
\* fail with the unable-to-render error before any slot is rendered and
\* before any check or renderToStaticMarkup call; nothing is written.
C7_FalsyComponentFailsFirst ==
    (/\ Component.kind = "falsy"
     /\ hydration.directive # "only"
     /\ pc \notin {"off", "renderComponent"})
        => (/\ pc = "failed"
            /\ thrown = "ComponentIsFalsy"
            /\ children = <<>>
            /\ slotInstructions = <<>>
            /\ checkLog = <<>>
            /\ staticCalls = <<>>
            /\ instance = NoInstance
            /\ destination = <<>>)

\* The failure happened with slots passed in and another directive present.
C7_Witness ==
    /\ thrown = "ComponentIsFalsy"
    /\ hydration.directive = "load"
    /\ slots = {"default", "a"}
    /\ Component.promised = "resolved"

-----------------------------------------------------------------------------
(* Properties of the output *)

\* The capability check of the selected renderer returned true.
ClaimedByCheck ==
    /\ renderer # 0
    /\ checkLog # <<>>
    /\ checkLog[Len(checkLog)] = <<renderer, "true">>

\* The marker word removeStaticAstroSlot is to strip for the renderer.
MarkerWord == 
    IF renderers[renderer].supportsAstroStaticSlot THEN "static-slot"
    ELSE "slot"

MarkerFree(h, word) == \A k \in DOMAIN h : ~MarkerAt(h, k, word)

\* A marker tag stands right behind an unfinished "<astro-".
NestedMarker(h, word) ==
    \E k \in DOMAIN h :
        h[k] \in {"<astro-", "</astro-"} /\ MarkerAt(h, k + 1, word)

\* The markup chunks written.
HtmlWritten == SelectSeq(destination, LAMBDA c : c.type = "html")

\* C8 as stated: without hydration directive and with a renderer whose
\* check returned true, the markup written is the renderer's html with the
\* marker tags of the renderer's kind removed, none of them left.  (Stated
\* here for html whose markers are not nested, which one pass clears.)
C8_MarkersAlwaysStripped ==
    (/\ pc = "done"
     /\ instance.kind = "static"
     /\ ClaimedByCheck
     /\ html # <<>>
     /\ ~NestedMarker(html, MarkerWord))
        => /\ Len(HtmlWritten) = 1
           /\ HtmlWritten[1].body =
                removeStaticAstroSlot(html,
                    renderers[renderer].supportsAstroStaticSlot)
           /\ MarkerFree(HtmlWritten[1].body, MarkerWord)

\* C8 amended: without hydration directive and with a renderer whose check
\* returned true: (1) if the render is not page-level and the renderer is
\* not 'astro:jsx', non-empty html is written after one left-to-right pass
\* that removes every match of the marker pattern of the renderer's kind,
\* which leaves no such marker unless the html held one nested in an
\* unfinished tag, and empty html is not written; (2) for a page-level
\* render or 'astro:jsx' the html is written as it is.
C8_MarkersStrippedUnlessPage ==
    (pc = "done" /\ instance.kind = "static" /\ ClaimedByCheck)
        => IF isPage \/ renderers[renderer].name = "astro:jsx"
           THEN HtmlWritten = <<DestChunk("html", html)>>
           ELSE IF html = <<>> THEN HtmlWritten = <<>>
           ELSE /\ Len(HtmlWritten) = 1
                /\ HtmlWritten[1].body =
                        removeStaticAstroSlot(html,
                            renderers[renderer].supportsAstroStaticSlot)
                /\ ~NestedMarker(html, MarkerWord)
                        => MarkerFree(HtmlWritten[1].body, MarkerWord)

\* Static markers were stripped for a renderer that supports them.
C8_Witness ==
    /\ pc = "done"
    /\ instance.kind = "static"
    /\ ClaimedByCheck
    /\ ~isPage
    /\ renderers[renderer].supportsAstroStaticSlot
    /\ ~MarkerFree(html, "static-slot")
    /\ HtmlWritten = <<DestChunk("html", <<"D", "x">>)>>

\* The marker a slot is expected to have left in the static html.
C9_Marker(key) ==
    IF key = "default" THEN <<"<astro-", "slot", ">">>
    ELSE <<"<astro-", "slot", NameAttr(key), ">">>

NeedsEntrypoint ==
    /\ renderer # 0
    /\ hydration.directive # "none"
    /\ ~renderers[renderer].clientEntrypoint
    /\ renderers[renderer].name # "@astrojs/lit"

\* C10 as stated: whenever a renderer was resolved, a hydration directive
\* is present, the renderer has no client entrypoint and is not
\* '@astrojs/lit', the call fails with the missing-client-entrypoint error.
C10_AlwaysMissingEntrypointError ==
    (NeedsEntrypoint /\ pc \in {"failed", "element", "build", "instance", "done"})
        => (pc = "failed" /\ thrown = "NoClientEntrypoint")

\* C10 amended: under those conditions the call fails and returns no
\* render instance, so no directive instruction and no island is written;
\* the error is the missing-client-entrypoint error unless the renderer's
\* renderToStaticMarkup, which is called before the validation, threw, in
\* which case it is that error.
C10_NoInstanceWithoutEntrypoint ==
    NeedsEntrypoint
        => /\ pc \in {"resolved", "static", "validate", "failed"}
           /\ instance = NoInstance
           /\ destination = <<>>
           /\ pc = "failed" =>
                \/ thrown = "NoClientEntrypoint"
                \/ thrown = "RendererError" /\ staticCalls # <<>>
           /\ thrown = "RendererError" => html = <<>>

\* The renderer rendered its html and the validation then failed.
C10_Witness ==
    /\ NeedsEntrypoint
    /\ thrown = "NoClientEntrypoint"
    /\ hydration.directive = "load"
    /\ staticCalls = <<renderer>>
    /\ html # <<>>

-----------------------------------------------------------------------------
(* C11: the custom element of a string component *)

\* A string component without hydration directive whose html is the element
\* built at lines 272-291 (no renderer html: every renderer html that is not
\* empty starts with text or a marker, never with "<").
C11_ElementPath ==
    /\ IsString(Component)
    /\ hydration.directive = "none"
    /\ pc \in {"build", "instance", "done"}
    /\ html # <<>>
    /\ Head(html) = "<"

\* The element the claim describes.
C11_Element ==
    LET tag == sanitizeElementName(ComponentString(Component))
        kids == ChildSlots(children)
    IN  <<"<">> \o tag \o <<" attrs">>
        \o (IF tag \in voidElementNames /\ kids = <<>>
            THEN <<"/>">>
            ELSE <<">">> \o kids \o <<"</">> \o tag \o <<">">>)

\* C11 as stated: for a string component with no hydration directive for
\* which no renderer produced html, the output is one element: the sanitized
\* component string as tag, the props as attributes, closed with "/>"
\* exactly when the tag is a void element and the joined children are empty,
\* and otherwise wrapping the children as ">children</tag>".
C11_OutputIsElement ==
    (C11_ElementPath /\ pc = "done")
        => HtmlWritten = <<DestChunk("html", C11_Element)>>

\* Line 302: the cases in which the instance writes its html as built.
C11_WrittenAsBuilt ==
    isPage \/ (renderer # 0 /\ renderers[renderer].name = "astro:jsx")

\* What holds of the element: the html handed to the instance is the
\* element of C11, its tag holds no character of the unsafe class, and it
\* is written as built on a page and under 'astro:jsx', and with the slot
\* marker tags removed from it otherwise.
C11_ElementBuilt ==
    C11_ElementPath
        => /\ html = C11_Element
           /\ \A i \in DOMAIN sanitizeElementName(ComponentString(Component)) :
                sanitizeElementName(ComponentString(Component))[i]
                    \notin UnsafeTokens
           /\ (pc = "done" /\ C11_WrittenAsBuilt)
                => HtmlWritten = <<DestChunk("html", C11_Element)>>
           /\ (pc = "done" /\ ~C11_WrittenAsBuilt)
                => HtmlWritten =
                     <<DestChunk("html",
                         removeStaticAstroSlot(C11_Element,
                            IF renderer # 0
                            THEN renderers[renderer].supportsAstroStaticSlot
                            ELSE FALSE))>>

\* A custom element whose children hold an island's slot marker is written
\* without the marker tags.
C11_WitnessStripped ==
    /\ C11_ElementPath
    /\ pc = "done"
    /\ renderer = 0
    /\ ~isPage
    /\ html = <<"<", "my-el", " attrs", ">", "D", "<astro-", "slot", ">", "A",
               "</astro-", "slot", ">", "</", "my-el", ">">>
    /\ HtmlWritten = <<DestChunk("html",
            <<"<", "my-el", " attrs", ">", "D", "A", "</", "my-el", ">">>)>>

\* The void element without children, from a name that needed sanitizing.
C11_WitnessVoid ==
    /\ C11_ElementPath
    /\ pc = "done"
    /\ Component.kind = "unsafestring"
    /\ HtmlWritten = <<DestChunk("html", <<"<", "br", " attrs", "/>">>)>>

-----------------------------------------------------------------------------
(* C12: errors of renderComponentToString *)

\* C12: every error raised while renderComponentToString resolves or
\* renders the component is terminal: renderComponent is called once and
\* never again, the call rejects with the error object that was raised and
\* returns no string, however much of one was built; the error object is
\* changed only when it is an AstroError without location, whose location
\* becomes the route's component file; an error with a location and an
\* error that is no AstroError are re-thrown as they are.
C12_ErrorsTerminal ==
    /\ attempts <= 1
    /\ tsPc = "caught" => settled = Pending
    /\ (tsPc = "done" /\ caught # NoError) => settled.kind = "rejected"
    /\ settled.kind = "returned" => caught = NoError
    /\ settled.kind = "rejected" =>
        /\ settled.error.message = caught.message
        /\ settled.error.isAstroError = caught.isAstroError
        /\ IF caught.isAstroError /\ caught.loc = "none"
           THEN settled.error.loc = route
           ELSE settled.error = caught

\* render raised an AstroError without location after part of the string
\* was built; the call rejected with it, located at the route's file.
C12_Witness ==
    /\ settled.kind = "rejected"
    /\ str # <<>>
    /\ caught.isAstroError
    /\ caught.loc = "none"
    /\ route = "src/pages/index.astro"
    /\ settled.error =
         [isAstroError |-> TRUE, loc |-> "src/pages/index.astro",
          message |-> caught.message]

-----------------------------------------------------------------------------
(* C13: the island hash *)

-----------------------------------------------------------------------------
(* C14: exceptions of capability checks *)

\* The positions in checkLog of the checks that threw / returned true.
Throws == {k \in DOMAIN checkLog : checkLog[k][2] = "throw"}

Trues == {k \in DOMAIN checkLog : checkLog[k][2] = "true"}

FirstThrower ==
    checkLog[CHOOSE k \in Throws : \A j \in Throws : k <= j][1]

\* C14: in normal mode an exception raised by a capability check does not
\* stop the iteration: the checks after it are still asked in registry
\* order, and when a later one returns true that renderer is selected and
\* the exception is dropped.  When the iteration ends with no renderer
\* selected and at least one check raised, the call fails with the first
\* exception raised, before the native-element fallback (no instance is
\* returned even for an HTMLElement constructor) and before the diagnosis
\* by probable renderers (no renderToStaticMarkup call, none of its errors).
C14_FirstCheckErrorAfterLoop ==
    /\ \A k \in DOMAIN checkLog : checkLog[k][1] = k
    /\ pc = "check" => Len(checkLog) = loopIdx - 1
    /\ (Throws # {} /\ Trues # {} /\ ResolutionDone)
        => /\ renderer = checkLog[Len(checkLog)][1]
           /\ Trues = {Len(checkLog)}
           /\ thrown # "CheckError"
    /\ (Throws # {} /\ Trues = {} /\ ResolutionDone)
        => /\ pc = "failed"
           /\ thrown = "CheckError"
           /\ error = FirstThrower
           /\ Len(checkLog) = Len(renderers)
           /\ renderer = 0
           /\ instance = NoInstance
           /\ staticCalls = <<>>
           /\ destination = <<>>
    /\ thrown = "CheckError" => (Throws # {} /\ Trues = {})

\* Both checks threw for an HTMLElement constructor: the call failed with
\* the first exception.
C14_Witness ==
    /\ Component.kind = "htmlelement"
    /\ checkLog = << <<1, "throw">>, <<2, "throw">> >>
    /\ pc = "failed"
    /\ thrown = "CheckError"
    /\ error = 1

\* The first check threw, the second returned true and was selected.
C14_WitnessDiscarded ==
    /\ checkLog = << <<1, "throw">>, <<2, "true">> >>
    /\ renderer = 2
    /\ pc = "done"

-----------------------------------------------------------------------------
(* C15: the pass-through renderer 'astro:jsx' *)

IsJsx(i) == renderers[i].name = "astro:jsx"

\* C15 as stated: in every resolution path the check of 'astro:jsx' is
\* never invoked and 'astro:jsx' is never the selected renderer.
C15_JsxNeverAskedNorSelected ==
    /\ \A k \in DOMAIN checkLog : ~IsJsx(checkLog[k][1])
    /\ renderer # 0 => ~IsJsx(renderer)

\* The registered renderers other than 'astro:jsx'.
C15_NonJsx == {i \in DOMAIN renderers : ~IsJsx(i)}

\* C15 amended: 'astro:jsx' is left out only of the single-renderer default
\* of "only" mode and of the diagnosis by probable renderer names.  In
\* "only" mode it is selected only when the directive names it, and a
\* registry with exactly one other renderer defaults to that other one; in
\* normal mode a renderer selected without a pre-tag and without a true
\* check is never 'astro:jsx'.  The check iteration and the pre-tag lookup
\* go over the whole registry: every renderer, 'astro:jsx' included, is
\* asked in registry order until one returns true, 'astro:jsx' is selected
\* when its check is the one that returns true, and a pre-tag 'astro:jsx'
\* selects it.
C15_JsxLeftOutOfDefaultsOnly ==
    /\ (hydration.directive = "only" /\ renderer # 0 /\ IsJsx(renderer))
        => hydration.value = "astro:jsx"
    /\ (hydration.directive = "only" /\ ResolutionDone
        /\ hydration.value = "" /\ Cardinality(C15_NonJsx) = 1)
        => renderer \in C15_NonJsx
    /\ (NormalMode /\ ~TagRegistered /\ Trues = {} /\ renderer # 0)
        => ~IsJsx(renderer)
    /\ (NormalMode /\ ~TagRegistered /\ Component.kind # "falsy"
        /\ ResolutionDone /\ Trues = {}
        /\ Component.kind \notin {"fragment", "html", "factory"})
        => /\ Len(checkLog) = Len(renderers)
           /\ \A k \in DOMAIN checkLog : checkLog[k][1] = k
    /\ (Trues # {} /\ ResolutionDone)
        => renderer = checkLog[Len(checkLog)][1]
    /\ (NormalMode /\ TagRegistered /\ Component.tag = "astro:jsx"
        /\ ResolutionDone)
        => (IsJsx(renderer) /\ checkLog = <<>>)

\* 'astro:jsx' was asked first, returned true and was selected.
C15_Witness ==
    /\ Len(renderers) = 2
    /\ IsJsx(1)
    /\ checkLog = << <<1, "true">> >>
    /\ renderer = 1
    /\ pc = "done"

\* "only" mode with 'astro:jsx' and one other renderer registered and no
\* name given: the other renderer was selected by default.
C15_WitnessDefault ==
    /\ hydration = Hydration("only", "", "")
    /\ Len(renderers) = 2
    /\ IsJsx(1)
    /\ renderer = 2
    /\ pc = "done"

-----------------------------------------------------------------------------
(* C16: resolution in "only" mode *)

\* The smallest member of a set of registry indices, 0 for the empty set.
C16_First(S) == IF S = {} THEN 0 ELSE CHOOSE i \in S : \A j \in S : i <= j

\* (a) the renderer the directive names, after the alias mapping, by its
\* scoped or its bare name.
C16_ByName ==
    LET named == IF hydration.value = "solid" THEN "solid-js"
                 ELSE hydration.value
    IN  IF hydration.value = "" THEN 0
        ELSE C16_First({i \in DOMAIN renderers :
                            renderers[i].name \in {Scoped(named), named}})

\* (b) the single registered renderer that is not the pass-through one.
C16_Single ==
    IF Cardinality({i \in DOMAIN renderers : ~IsJsx(i)}) = 1
    THEN C16_First({i \in DOMAIN renderers : ~IsJsx(i)})
    ELSE 0

\* (c) the first registered renderer named by the file extension.
C16_ByExtension ==
    C16_First({i \in DOMAIN renderers :
                 renderers[i].name \in {Scoped(hydration.ext), hydration.ext}})

\* C16: in "only" mode the renderer is resolved by three attempts in strict
\* priority: (a) the explicitly named renderer; only if (a) found none,
\* (b) the single non-pass-through renderer; only if (a) and (b) found
\* none, (c) the first renderer named by the extension of the component
\* URL.  A renderer found by an earlier attempt is never replaced by a
\* later one, and neither a capability check nor renderToStaticMarkup is
\* invoked in this mode.
C16_OnlyModePriority ==
    (hydration.directive = "only" /\ ResolutionDone)
        => /\ renderer = IF C16_ByName # 0 THEN C16_ByName
                         ELSE IF C16_Single # 0 THEN C16_Single
                         ELSE C16_ByExtension
           /\ checkLog = <<>>
           /\ staticCalls = <<>>

\* The directive names 'astro:jsx' while one other renderer is registered:
\* the named renderer was kept, the default did not replace it (the call
\* then failed for want of a client entrypoint).
C16_Witness ==
    /\ hydration.directive = "only"
    /\ pc = "failed"
    /\ thrown = "NoClientEntrypoint"
    /\ C16_ByName = 1
    /\ C16_Single = 2
    /\ renderer = 1

\* The alias 'solid' found '@astrojs/solid-js' behind another renderer.
C16_WitnessAlias ==
    /\ hydration.directive = "only"
    /\ hydration.value = "solid"
    /\ pc = "done"
    /\ Len(renderers) = 2
    /\ renderer = 2
    /\ renderers[2].name = "@astrojs/solid-js"

\* Neither name nor default: the extension found the renderer.
C16_WitnessExtension ==
    /\ hydration.directive = "only"
    /\ pc \in {"done", "failed"}
    /\ C16_ByName = 0
    /\ C16_Single = 0
    /\ renderer # 0
    /\ renderer = C16_ByExtension

-----------------------------------------------------------------------------
(* C17: no renderer resolved *)

\* A component that reaches renderer resolution.
C17_Framework == Component.kind \notin {"falsy", "fragment", "html", "factory"}

\* The steps after lines 186-237.
C17_PastDiagnosis ==
    pc \in {"static", "validate", "element", "build", "instance", "done",
            "failed"}

\* Normal mode, a non-string component, and resolution ended without a
\* renderer: no registered pre-tag, no check returned true (and none threw).
C17_NormalUnresolved ==
    /\ NormalMode
    /\ C17_Framework
    /\ ~IsString(Component)
    /\ ~TagRegistered
    /\ Trues = {}
    /\ Throws = {}
    /\ C17_PastDiagnosis

\* The non-pass-through renderers whose name is a probable one.
C17_Probable ==
    {i \in DOMAIN renderers :
        ~IsJsx(i) /\ renderers[i].name \in Range(guessRenderers(hydration.ext))}

\* The outcome the claim gives by the number of probable renderers.
C17_ByCount ==
    /\ Cardinality(C17_Probable) = 0
        => (pc = "failed" /\ thrown = "NoMatchingRenderer")
    /\ Cardinality(C17_Probable) > 1
        => (pc = "failed" /\ thrown = "UnableToRender")
    /\ Cardinality(C17_Probable) = 1
        => /\ renderer \in C17_Probable
           /\ pc # "static" => staticCalls = <<renderer>>

C17_OnlyUnresolved ==
    (/\ hydration.directive = "only"
     /\ C17_Framework
     /\ C17_PastDiagnosis
     /\ C16_ByName = 0 /\ C16_Single = 0 /\ C16_ByExtension = 0)
        => (pc = "failed" /\ thrown = "NoClientOnlyHint")

\* C17 as stated: with no renderer resolved, "only" mode fails with the
\* no-client-only-hint error; normal mode with a non-string component fails
\* with the no-matching-renderer error for n = 0 probable renderers, with
\* the generic unable-to-render error for n > 1, and for n = 1 selects that
\* renderer and calls its renderToStaticMarkup exactly once; and no render
\* instance is returned without a selected renderer or a string component.
C17_OutcomeByProbableCount ==
    /\ C17_OnlyUnresolved
    /\ C17_NormalUnresolved => C17_ByCount
    /\ instance.kind \in {"static", "island", "element"}
        => (renderer # 0 \/ IsString(Component))

\* C17 amended: as stated, except that in normal mode a component that is
\* an HTMLElement constructor, on a host that defines HTMLElement, is not
\* diagnosed at all: a render instance serialising the element is returned
\* with no renderer selected and no renderToStaticMarkup call.  (And when a
\* capability check raised, the call fails with that exception, C14.)  No
\* other render instance comes without a selected renderer or a string
\* component.
C17_OutcomeUnlessNativeElement ==
    /\ C17_OnlyUnresolved
    /\ (C17_NormalUnresolved /\ instance.kind # "element") => C17_ByCount
    /\ instance.kind = "element"
        => /\ Component.kind = "htmlelement"
           /\ C17_NormalUnresolved
           /\ renderer = 0
           /\ staticCalls = <<>>
           /\ thrown = "none"
    /\ instance.kind \in {"static", "island"}
        => (renderer # 0 \/ IsString(Component))

\* Both checks returned false, one renderer is probable for the extension:
\* it was selected and rendered the component.
C17_Witness ==
    /\ C17_NormalUnresolved
    /\ Len(checkLog) = 2
    /\ Cardinality(C17_Probable) = 1
    /\ renderer \in C17_Probable
    /\ staticCalls = <<renderer>>
    /\ pc = "done"

\* The native-element fallback returned an instance although two probable
\* renderers are registered.
C17_WitnessElement ==
    /\ C17_NormalUnresolved
    /\ Cardinality(C17_Probable) = 2
    /\ instance.kind = "element"
    /\ renderer = 0
    /\ pc = "done"

-----------------------------------------------------------------------------
(* C18: what a hydrated component writes *)

\* The k-th chunk written is the k-th pending slot instruction.
C18_InstructionAt(k) ==
    destination[k] = DestChunk("instruction", <<slotInstructions[k]>>)

\* C18: render(destination) of a hydrated component writes, in this order,
\* every pending slot instruction in its original order, then exactly one
\* directive instruction, then exactly one astro-island element; the
\* directive instruction never comes after the island.
C18_InstructionsDirectiveIsland ==
    (pc = "done" /\ instance.kind = "island")
        => LET n == Len(slotInstructions) IN
           /\ Len(destination) = n + 2
           /\ \A k \in 1..n : C18_InstructionAt(k)
           /\ destination[n + 1].type = "directive"
           /\ destination[n + 1].body = <<hydration.directive>>
           /\ destination[n + 2] = DestChunk("island", instance.html)
           /\ \A i, j \in DOMAIN destination :
                (destination[i].type = "directive"
                 /\ destination[j].type = "island") => i < j

\* Two slot instructions were pending; they, the directive and the island
\* were written in that order.
C18_Witness ==
    /\ pc = "done"
    /\ instance.kind = "island"
    /\ slotInstructions = <<"instruction-a", "instruction-fallback">>
    /\ Len(destination) = 4
    /\ destination[3].type = "directive"
    /\ destination[4].type = "island"

-----------------------------------------------------------------------------
(* C19: the buffer of a template-factory instance *)

\* The parent has called render(destination) of sibling i.
C19_RenderCalled(i) ==
    parentIdx > i \/ (parentIdx = i /\ parentPhase = "awaiting")

\* C19: before render(destination) of a template-factory instance is
\* called, none of the chunks its nested instance wrote has reached the
\* real destination: all of them are in the buffer.  Once render has
\* flushed, the buffer is empty and stays empty, and every chunk written
\* since is in the real destination as soon as it is written.
C19_BufferedUntilRender ==
    \A i \in Siblings :
        /\ ~C19_RenderCalled(i)
            => /\ ChunksOf(realDest, i) = <<>>
               /\ bufferChunks[i] = produced[i]
        /\ C19_RenderCalled(i)
            => /\ bufferChunks[i] = <<>>
               /\ ChunksOf(realDest, i) = produced[i]

\* Sibling 2 has buffered two chunks while the parent still awaits sibling
\* 1, which was flushed with one chunk and has since written another.
C19_Witness ==
    /\ parentIdx = 1
    /\ parentPhase = "awaiting"
    /\ ~resolved[1]
    /\ flushed[1] = 1
    /\ Len(produced[1]) = 2
    /\ Len(bufferChunks[2]) = 2

-----------------------------------------------------------------------------
(* C20: doctype, head and Response chunks in renderComponentToString *)

\* The text the chunks written contribute, Response chunks left out.
RECURSIVE C20_Texts(_)
C20_Texts(chunks) ==
    IF chunks = <<>> THEN <<>>
    ELSE (IF Head(chunks).type = "response" THEN <<>>
          ELSE chunkToString(Head(chunks)))
         \o C20_Texts(Tail(chunks))

\* The doctype and head prefix.
C20_Prefix == <<Doctype(compressHTML)>> \o head

\* The chunk starts with a doctype.
C20_StartsWithDoctype(chunk) ==
    /\ StringOf(chunk) # <<>>
    /\ TestDoctype(<<Head(StringOf(chunk))>>)

\* The string destination.write builds from a sequence of chunks.
RECURSIVE C20_StrOf(_, _)
C20_StrOf(st, chunks) ==
    IF chunks = <<>> THEN st.str
    ELSE C20_StrOf(destinationWrite(st, Head(chunks), isPageArg,
                                    compressHTML, head),
                   Tail(chunks))

\* The doctype and head are prepended at most once, only in front of the
\* first chunk, only for a page, and only when the first chunk does not
\* start with a doctype.
C20_PrefixOnce ==
    /\ str \in {C20_Texts(written), C20_Prefix \o C20_Texts(written)}
    /\ str # C20_Texts(written)
        => /\ isPageArg
           /\ written # <<>>
           /\ ~C20_StartsWithDoctype(written[1])

\* C20 as stated: over any sequence of chunks written, with isPage true the
\* doctype and head are prepended at most once, only immediately before
\* the first chunk and only if that chunk does not already start with a
\* doctype; with isPage false they are never prepended; and a Response
\* chunk contributes nothing to the string: the string is the one the same
\* chunks without the Response chunks give.
C20_PrefixOnceResponseIgnored ==
    /\ C20_PrefixOnce
    /\ str = C20_StrOf([renderedFirstPageChunk |-> FALSE, str |-> <<>>],
                       SelectSeq(written, LAMBDA c : c.type # "response"))

\* What holds: the prefix rule above, with the prefix present exactly when
\* the call renders a page and the first chunk written, of whatever type,
\* holds no doctype; a Response chunk adds no text of its own.
C20_PrefixByFirstChunk ==
    /\ C20_PrefixOnce
    /\ str = C20_Prefix \o C20_Texts(written)
        <=> /\ isPageArg
            /\ written # <<>>
            /\ ~TestDoctype(StringOf(written[1]))

\* A page whose first chunk is a Response and whose second starts with a
\* doctype: the string holds two doctypes.
C20_WitnessResponseFirst ==
    /\ isPageArg
    /\ ~compressHTML
    /\ head = <<>>
    /\ written = <<DestChunk("response", <<>>),
                   DestChunk("text", <<"<!doctype html>", "x">>)>>
    /\ str = <<"<!DOCTYPE html>\n", "<!doctype html>", "x">>
    /\ settled.kind = "returned"

-----------------------------------------------------------------------------
(* C21: the custom-element fallback and hydration *)

\* The custom-element fallback was taken: a string component, no renderer
\* resolved, the html is the element built at lines 272-291.
C21_Fallback ==
    /\ IsString(Component)
    /\ renderer = 0
    /\ pc \in {"build", "instance", "done", "failed"}
    /\ html # <<>>
    /\ Head(html) = "<"

\* Every chunk written is a slot instruction or markup.
C21_NoClientRuntimeWritten ==
    \A k \in DOMAIN destination :
        destination[k].type \in {"instruction", "html"}

\* C21 as stated: whenever the component is a string and no renderer is
\* resolved, the render instance returned writes only the slot instructions
\* and the bare element markup, no directive instruction and no
\* astro-island element, and no island is built with an undefined
\* renderer, whatever the props, a hydration directive among them or not.
C21_FallbackWritesBareElement ==
    C21_Fallback
        => /\ instance.kind # "island"
           /\ C21_NoClientRuntimeWritten
           /\ pc = "done"
                => /\ instance.kind = "static"
                   /\ Len(destination) = Len(slotInstructions) + 1
                   /\ destination[Len(destination)].type = "html"

\* What holds: without hydration directive the fallback returns the static
\* instance, which writes the slot instructions and one markup chunk; with
\* a directive (other than "only", which fails before the fallback) the
\* static instance is never returned: generateHydrateScript is called with
\* no renderer, and the call fails there or an island is built and written.
C21_BareElementWithoutDirective ==
    C21_Fallback
        => /\ hydration.directive # "only"
           /\ (hydration.directive = "none" /\ pc \in {"instance", "done"})
                => instance.kind = "static"
           /\ (hydration.directive = "none" /\ pc = "done")
                => /\ C21_NoClientRuntimeWritten
                   /\ Len(destination) = Len(slotInstructions) + 1
                   /\ destination[Len(destination)].type = "html"
           /\ hydration.directive = "none" => pc # "failed"
           /\ hydration.directive # "none"
                => /\ instance.kind # "static"
                   /\ pc = "failed" => thrown = "HydrateScriptError"
                   /\ pc = "done"
                        => /\ instance.kind = "island"
                           /\ ~C21_NoClientRuntimeWritten

\* A string component with client:load and no renderer: an island was built
\* around the element markup and written behind a directive instruction.
C21_WitnessIsland ==
    /\ C21_Fallback
    /\ hydration.directive = "load"
    /\ renderers = <<>>
    /\ pc = "done"
    /\ instance.kind = "island"
    /\ destination[Len(destination)].type = "island"

\* The same component without directive: the bare element was written.
C21_WitnessBare ==
    /\ C21_Fallback
    /\ hydration.directive = "none"
    /\ renderers = <<>>
    /\ pc = "done"
    /\ destination = <<DestChunk("html", <<"<", "my-el", " attrs", ">",
                                           "</", "my-el", ">">>)>>

====
